---- MODULE Spec2Model ----
(***************************************************************************)
(* The call lifecycle of the two App components of src/App.tsx:            *)
(*   variant "A" = the first App component  (lines 7-220),                 *)
(*   variant "B" = the second App component (lines 248-610).               *)
(*                                                                         *)
(* One state of the model is one state of the browser's event loop between *)
(* two tasks: the React state (callState, transcript, ...), the refs, the  *)
(* browser objects the refs point to (microphone streams, audio contexts,  *)
(* capture nodes, sessions), the pending timers and the async functions    *)
(* suspended at an await.  One action is one task: a click, a callback of  *)
(* the session, the continuation of an await, a timer.                     *)
(*                                                                         *)
(* React closures: a handler sees the state of the render that created it. *)
(* Handlers the Dialer invokes come from the latest render.  The endCall   *)
(* the session callbacks invoke is the one the startCall closure captured: *)
(* in A its callState is Idle (startCall passed its guard in that render), *)
(* in B its transcript is the transcript of the render that memoized       *)
(* startCall (useCallback deps [ai, callState, selectedTemplate]).         *)
(***************************************************************************)
EXTENDS Integers, Sequences, FiniteSets, TLC

\* ---------------------------------------------------------------- bounds
MaxCalls == 2       \* startCall invocations that pass the guard
MaxMsgs == 3        \* onmessage deliveries
MaxAudioMsgs == 2   \* onmessage deliveries in the runs that have reply audio
MaxUnmountMsgs == 1 \* onmessage deliveries in the runs that end by unmounting
MaxFrames == 2      \* onaudioprocess events (captured frames)
MaxPreviews == 1    \* previewVoice clicks (variant B)
MaxFrags == 2       \* messages carrying reply audio
MaxClock == 2       \* ticks of the playback clock per playback context
MaxDur == 2         \* longest reply fragment, in ticks
MaxPreviewMsgs == 1 \* onmessage deliveries in the runs that have voice previews

Calls == 1..MaxCalls
Frags == 1..MaxFrags    \* reply fragments, numbered in arrival order
NoRef == 0          \* a ref holding null

\* Audio contexts are named by the call that created them, or, for those
\* previewVoice creates, by MaxCalls + k.
PreviewCtx(k) == MaxCalls + k
OutCtxIds == 1..(MaxCalls + MaxPreviews)

VARIABLES
  variant,                    \* "A" or "B": which App component is mounted
  callState,                  \* useState<CallState>
  transcript,                 \* useState<TranscriptEntry[]>
  isOrbListening,             \* useState(false)
  showDialer,                 \* A: useState(false); B renders the Dialer always
  lastCallTranscript,         \* B: useState<TranscriptEntry[] | null>, <<>> = null
  memoTranscript,             \* B: transcript of the render that memoized startCall
  currentInputTranscription,  \* accumulator ref
  currentOutputTranscription, \* accumulator ref
  firstPartial,               \* the speaker whose partial text opened the turn in
                              \* progress ("none": no partial text since the last
                              \* turn-complete signal)
  nCalls,                     \* calls started so far; the latest call is nCalls
  pc,                         \* per call: where its async startCall is suspended
  capturedTranscript,         \* per call, B: transcript in the captured endCall
  promise,                    \* per call: state of the connect() promise
  sess,                       \* per call: state of the session (WebSocket)
  closeOnResolve,             \* B: calls whose promise has a pending .then(close)
  sessionRef,                 \* A: sessionRef.current; B: sessionPromise.current
  streamRef,                  \* A: streamRef.current
  scriptProcessor,            \* capture node ref (B: with mediaStreamSource)
  inputAudioContext,          \* capture context ref
  outputAudioContext,         \* playback context ref
  liveStreams,                \* microphone streams whose tracks are not stopped
  connectedProcs,             \* capture nodes still connected
  openIn,                     \* capture contexts not closed
  openOut,                    \* playback contexts not closed
  timers,                     \* pending setTimeout callbacks of endCall
  nPreviewCtx,                \* playback contexts previewVoice has created
  pvWaiting,                  \* previews awaiting generateContent
  pvDecoding,                 \* previews awaiting decodeAudioData
  nPreviews,                  \* previewVoice clicks so far
  nMsgs,                      \* onmessage deliveries so far
  nextStartTime,              \* playback cursor ref
  clock,                      \* currentTime of the context outputAudioContext holds
  audioSources,               \* A: sourcesRef, B: audioSources: the live set
  nFrags,                     \* reply fragments received so far
  fstate,                     \* per fragment: decoding, playing, stopped, ended, failed
  fstart,                     \* per fragment: the time passed to source.start
  fdur,                       \* per fragment: audioBuffer.duration
  fintr,                      \* per fragment: its message's interrupted flag
  fcut,                       \* per fragment: an interruption was handled while its
                              \* decode was awaited
  nCaptured,                  \* onaudioprocess events so far
  framesWaiting,              \* per capture node and connect() promise: frames whose
                              \* .then continuation has not run yet
  forwarded,                  \* per capture node: sendRealtimeInput calls for its frames
  sample,                     \* a sample of the input buffer, scaled by 32768, in
                              \* units of 1/SampleDen
  pcm,                        \* the Int16Array element stored for that sample
  lastOp,                     \* the task that produced this state
  endCallInvoked              \* whether that task called endCall

uiVars == <<callState, transcript, isOrbListening, showDialer, lastCallTranscript>>
accVars == <<currentInputTranscription, currentOutputTranscription, firstPartial>>
callVars == <<nCalls, pc, capturedTranscript, promise>>
refVars == <<sessionRef, streamRef, scriptProcessor, inputAudioContext,
             outputAudioContext>>
objVars == <<sess, closeOnResolve, liveStreams, connectedProcs, openIn, openOut>>
pvVars == <<nPreviewCtx, pvWaiting, pvDecoding, nPreviews>>
fragVars == <<nFrags, fstate, fstart, fdur, fintr, fcut>>
audioVars == <<nextStartTime, clock, audioSources, fragVars>>
capVars == <<nCaptured, framesWaiting, forwarded, sample, pcm>>

vars == <<variant, uiVars, memoTranscript, accVars, callVars, refVars, objVars,
          timers, pvVars, nMsgs, audioVars, capVars, lastOp, endCallInvoked>>

\* ---------------------------------------------------------------- data
Entry(sp, tx) == [speaker |-> sp, text |-> tx]

\* The System entries of variant B (texts are sequences of tokens).
InitializingEntry == Entry("System", <<"Initializing session...">>)
OpenedEntry == Entry("System", <<"Connection opened. You can start speaking.">>)
MicErrorEntry == Entry("System", <<"Error: Could not get microphone access.">>)
SessionErrorEntry == Entry("System", <<"Error: ">>)
SessionClosedEntry == Entry("System", <<"Session closed.">>)
PreviewingEntry == Entry("System", <<"Previewing voice: ">>)
PreviewErrorEntry == Entry("System", <<"Error: Could not generate voice preview.">>)

InitCall ==
  /\ variant \in {"A", "B"}
  /\ callState = "Idle"
  /\ transcript = <<>>
  /\ isOrbListening = FALSE
  /\ showDialer = (variant = "B")
  /\ lastCallTranscript = <<>>
  /\ memoTranscript = <<>>
  /\ currentInputTranscription = <<>>
  /\ currentOutputTranscription = <<>>
  /\ firstPartial = "none"
  /\ nCalls = 0
  /\ pc = [c \in Calls |-> "none"]
  /\ capturedTranscript = [c \in Calls |-> <<>>]
  /\ promise = [c \in Calls |-> "none"]
  /\ sess = [c \in Calls |-> "none"]
  /\ closeOnResolve = {}
  /\ sessionRef = NoRef
  /\ streamRef = NoRef
  /\ scriptProcessor = NoRef
  /\ inputAudioContext = NoRef
  /\ outputAudioContext = NoRef
  /\ liveStreams = {}
  /\ connectedProcs = {}
  /\ openIn = {}
  /\ openOut = {}
  /\ timers = 0
  /\ nPreviewCtx = 0
  /\ pvWaiting = 0
  /\ pvDecoding = 0
  /\ nPreviews = 0
  /\ nMsgs = 0
  /\ nextStartTime = 0
  /\ clock = 0
  /\ audioSources = {}
  /\ nFrags = 0
  /\ fstate = [f \in Frags |-> "none"]
  /\ fstart = [f \in Frags |-> 0]
  /\ fdur = [f \in Frags |-> 0]
  /\ fintr = [f \in Frags |-> FALSE]
  /\ fcut = [f \in Frags |-> FALSE]
  /\ nCaptured = 0
  /\ framesWaiting = [c \in Calls |-> [p \in Calls |-> 0]]
  /\ forwarded = [c \in Calls |-> 0]
  /\ lastOp = "mount"
  /\ endCallInvoked = FALSE

\* The state after mounting, the input buffer holding silence.
Init ==
  /\ InitCall
  /\ sample = 0
  /\ pcm = 0


\* ---------------------------------------------------------------- helpers
\* React re-runs the component after a task; useCallback re-creates startCall
\* (and with it the endCall it closes over) when callState has changed.
Rerender ==
  memoTranscript' = IF variant = "B" /\ callState' # callState
                    THEN transcript' ELSE memoTranscript

\* session.close() on the session r refers to (r = NoRef: the ?. short-circuit).
CloseSession(s, r) ==
  IF r # NoRef /\ s[r] \in {"open", "errored"} THEN [s EXCEPT ![r] = "closing"] ELSE s

\* source.stop() on every fragment of the live set, then clear().
StopAll ==
  /\ fstate' = [f \in Frags |-> IF f \in audioSources THEN "stopped" ELSE fstate[f]]
  /\ audioSources' = {}

\* A: cleanup(), applied after the session map has become s.
Cleanup(s) ==
  /\ sess' = CloseSession(s, sessionRef)
  /\ sessionRef' = NoRef
  /\ liveStreams' = liveStreams \ {streamRef}
  /\ streamRef' = NoRef
  /\ connectedProcs' = connectedProcs \ {scriptProcessor}
  /\ scriptProcessor' = NoRef
  /\ openIn' = openIn \ {inputAudioContext}
  /\ inputAudioContext' = NoRef
  /\ openOut' = openOut \ {outputAudioContext}
  /\ outputAudioContext' = NoRef
  /\ clock' = 0
  /\ StopAll
  /\ UNCHANGED <<closeOnResolve, nextStartTime, nFrags, fstart, fdur, fintr, fcut>>

\* A: endCall() of a render whose callState was cs.
EndCallA(cs, s) ==
  IF cs = "Connected"
  THEN /\ callState' = "Ended"
       /\ Cleanup(s)
       /\ timers' = timers + 1
  ELSE /\ sess' = s
       /\ UNCHANGED <<callState, timers, refVars, closeOnResolve, liveStreams,
                      connectedProcs, openIn, openOut, audioVars>>

\* B: endCall() of a render whose transcript was t.  The microphone stream is a
\* local of startCall: endCall has no handle on it and stops no track.
EndCallB(t, s) ==
  /\ sess' = IF sessionRef # NoRef /\ promise[sessionRef] = "resolved"
             THEN CloseSession(s, sessionRef) ELSE s
  /\ closeOnResolve' = IF sessionRef # NoRef /\ promise[sessionRef] = "pending"
                       THEN closeOnResolve \cup {sessionRef} ELSE closeOnResolve
  /\ sessionRef' = NoRef
  /\ connectedProcs' = connectedProcs \ {scriptProcessor}
  /\ scriptProcessor' = NoRef
  /\ openIn' = openIn \ {inputAudioContext}
  /\ inputAudioContext' = NoRef
  /\ openOut' = openOut \ {outputAudioContext}
  /\ outputAudioContext' = NoRef
  /\ clock' = 0
  /\ StopAll
  /\ UNCHANGED <<streamRef, liveStreams, nextStartTime, nFrags, fstart, fdur, fintr,
                 fcut>>
  /\ lastCallTranscript' = IF Len(t) > 2 THEN t ELSE lastCallTranscript
  /\ transcript' = <<>>
  /\ isOrbListening' = FALSE
  /\ callState' = "Ended"
  /\ timers' = timers + 1

\* The catch block of startCall.
CatchStart ==
  /\ callState' = "Idle"
  /\ isOrbListening' = IF variant = "A" THEN FALSE ELSE isOrbListening
  /\ transcript' = IF variant = "A" THEN transcript
                   ELSE Append(transcript, MicErrorEntry)
  /\ UNCHANGED <<showDialer, lastCallTranscript>>

\* ---------------------------------------------------------------- startCall
\* A guard that lets a call be restarted from Ended.
StartGuardFromEnded(cs) == cs \in {"Idle", "Ended"}

\* The guard of startCall (B: ai.current is set by the mount effect).
StartGuard(cs) == cs = "Idle"

\* startCall() up to its first await.
StartCallBody ==
  IF ~StartGuard(callState)
  THEN UNCHANGED <<uiVars, callVars>>
  ELSE /\ nCalls < MaxCalls
       /\ nCalls' = nCalls + 1
       /\ pc' = [pc EXCEPT ![nCalls + 1] = "mic"]
       /\ capturedTranscript' =
            [capturedTranscript EXCEPT ![nCalls + 1] = memoTranscript]
       /\ callState' = "Connecting"
       /\ transcript' = IF variant = "A" THEN <<>> ELSE <<InitializingEntry>>
       /\ isOrbListening' = IF variant = "A" THEN TRUE ELSE isOrbListening
       /\ UNCHANGED <<showDialer, lastCallTranscript, promise>>

\* The Dialer's Call button: disabled while Connecting or Connected; A renders
\* the Dialer only while showDialer.
CallButtonEnabled == showDialer /\ callState \notin {"Connecting", "Connected"}

StartCall ==
  /\ CallButtonEnabled
  /\ StartCallBody
  /\ lastOp' = "startCall"
  /\ UNCHANGED capVars
  /\ UNCHANGED audioVars
  /\ endCallInvoked' = FALSE
  /\ UNCHANGED <<variant, accVars, refVars, objVars, timers, pvVars, nMsgs>>
  /\ Rerender

\* startCall() invoked where the Dialer would not invoke it.
StartCallDirect ==
  /\ ~CallButtonEnabled
  /\ StartCallBody
  /\ lastOp' = "startCall"
  /\ UNCHANGED capVars
  /\ endCallInvoked' = FALSE
  /\ UNCHANGED <<variant, accVars, refVars, objVars, timers, pvVars, nMsgs,
                 audioVars>>
  /\ Rerender

\* getUserMedia resolves; the contexts are created and connect() is called.
\* how = "ok", or which constructor throws.
MicGranted(c, how) ==
  /\ pc[c] = "mic"
  /\ liveStreams' = liveStreams \cup {c}
  /\ streamRef' = IF variant = "A" THEN c ELSE streamRef
  /\ openIn' = IF how = "inputContextThrows" THEN openIn ELSE openIn \cup {c}
  /\ inputAudioContext' = IF how = "inputContextThrows" THEN inputAudioContext ELSE c
  /\ openOut' = IF how = "ok" THEN openOut \cup {c} ELSE openOut
  /\ outputAudioContext' = IF how = "ok" THEN c ELSE outputAudioContext
  /\ clock' = IF how = "ok" THEN 0 ELSE clock
  /\ nextStartTime' = IF how = "ok" /\ variant = "A" THEN 0 ELSE nextStartTime
  /\ IF how = "ok"
     THEN /\ sess' = [sess EXCEPT ![c] = "connecting"]
          /\ promise' = [promise EXCEPT ![c] = "pending"]
          /\ sessionRef' = IF variant = "B" THEN c ELSE sessionRef
          /\ pc' = [pc EXCEPT ![c] = IF variant = "A" THEN "connect" ELSE "done"]
          /\ UNCHANGED uiVars
     ELSE /\ pc' = [pc EXCEPT ![c] = "done"]
          /\ CatchStart
          /\ UNCHANGED <<sess, promise, sessionRef>>
  /\ lastOp' = "micGranted"
  /\ UNCHANGED capVars
  /\ endCallInvoked' = FALSE
  /\ UNCHANGED <<variant, accVars, nCalls, capturedTranscript, scriptProcessor,
                 closeOnResolve, connectedProcs, timers, pvVars, nMsgs,
                 audioSources, fragVars>>
  /\ Rerender

\* getUserMedia rejects.
MicDenied(c) ==
  /\ pc[c] = "mic"
  /\ pc' = [pc EXCEPT ![c] = "done"]
  /\ CatchStart
  /\ lastOp' = "micDenied"
  /\ UNCHANGED capVars
  /\ UNCHANGED audioVars
  /\ endCallInvoked' = FALSE
  /\ UNCHANGED <<variant, accVars, nCalls, capturedTranscript, promise, refVars,
                 objVars, timers, pvVars, nMsgs>>
  /\ Rerender


\* ---------------------------------------------------------------- session events
\* onopen: the handshake succeeded.  The capture node is created on the context
\* inputAudioContext refers to now; with the ref null the callback throws after
\* its state updates.
OnOpen(c) ==
  /\ sess[c] = "connecting"
  /\ sess' = [sess EXCEPT ![c] = "open"]
  /\ callState' = "Connected"
  /\ isOrbListening' = IF variant = "B" THEN TRUE ELSE isOrbListening
  /\ transcript' = IF variant = "B" THEN Append(transcript, OpenedEntry) ELSE transcript
  /\ scriptProcessor' = IF inputAudioContext # NoRef THEN c ELSE scriptProcessor
  /\ connectedProcs' = IF inputAudioContext # NoRef THEN connectedProcs \cup {c}
                       ELSE connectedProcs
  /\ lastOp' = "onopen"
  /\ UNCHANGED capVars
  /\ UNCHANGED audioVars
  /\ endCallInvoked' = FALSE
  /\ UNCHANGED <<variant, showDialer, lastCallTranscript, accVars, callVars,
                 sessionRef, streamRef, inputAudioContext, outputAudioContext,
                 closeOnResolve, liveStreams, openIn, openOut, timers, pvVars, nMsgs>>
  /\ Rerender

\* The connect() promise resolves.  A: startCall resumes after its await and
\* stores the session.  B: a .then(session => session.close()) registered by
\* endCall runs.  The continuations onaudioprocess registered on the promise
\* run too, each calling sendRealtimeInput (in B before the close, which was
\* registered after them).
ResolveConnect(c) ==
  /\ promise[c] = "pending"
  /\ sess[c] \in {"open", "errored", "closing", "closed"}
  /\ promise' = [promise EXCEPT ![c] = "resolved"]
  /\ IF variant = "A"
     THEN /\ sessionRef' = c
          /\ pc' = [pc EXCEPT ![c] = "done"]
          /\ UNCHANGED <<sess, closeOnResolve>>
     ELSE /\ sess' = IF c \in closeOnResolve THEN CloseSession(sess, c) ELSE sess
          /\ closeOnResolve' = closeOnResolve \ {c}
          /\ UNCHANGED <<sessionRef, pc>>
  /\ forwarded' = [n \in Calls |-> forwarded[n] + framesWaiting[n][c]]
  /\ framesWaiting' = [n \in Calls |-> [framesWaiting[n] EXCEPT ![c] = 0]]
  /\ UNCHANGED <<nCaptured, sample, pcm>>
  /\ lastOp' = "resolve"
  /\ UNCHANGED audioVars
  /\ endCallInvoked' = FALSE
  /\ UNCHANGED <<variant, uiVars, accVars, nCalls, capturedTranscript, streamRef,
                 scriptProcessor, inputAudioContext, outputAudioContext,
                 liveStreams, connectedProcs, openIn, openOut, timers, pvVars, nMsgs>>
  /\ Rerender

\* The connect() promise rejects: the handshake failed, after the socket's
\* error event or, when connect() fails before it has a socket, with no
\* callback at all.  A awaits the promise inside its try; B does not await it.
RejectConnect(c) ==
  /\ promise[c] = "pending"
  /\ sess[c] \in {"connecting", "failing", "failed"}
  /\ promise' = [promise EXCEPT ![c] = "rejected"]
  /\ sess' = [sess EXCEPT ![c] = IF @ = "connecting" THEN "failed" ELSE @]
  /\ IF variant = "A"
     THEN /\ pc' = [pc EXCEPT ![c] = "done"]
          /\ CatchStart
     ELSE UNCHANGED <<pc, uiVars>>
  /\ lastOp' = "reject"
  /\ UNCHANGED capVars
  /\ endCallInvoked' = FALSE
  /\ UNCHANGED <<variant, accVars, nCalls, capturedTranscript, refVars,
                 closeOnResolve, liveStreams, connectedProcs, openIn, openOut,
                 timers, pvVars, nMsgs, audioVars>>
  /\ Rerender

\* The callState the endCall captured by A's startCall closure sees.
CapturedCallState == "Idle"

\* onerror: on an open session, or during the handshake.
OnError(c) ==
  /\ sess[c] \in {"connecting", "open"}
  /\ LET s == [sess EXCEPT ![c] = IF @ = "open" THEN "errored" ELSE "failing"]
     IN IF variant = "A"
        THEN /\ isOrbListening' = FALSE
             /\ EndCallA(CapturedCallState, s)
             /\ UNCHANGED <<transcript, showDialer, lastCallTranscript>>
        ELSE /\ EndCallB(capturedTranscript[c], s)
             /\ UNCHANGED showDialer
  /\ lastOp' = "onerror"
  /\ UNCHANGED capVars
  /\ endCallInvoked' = TRUE
  /\ UNCHANGED <<variant, accVars, callVars, pvVars, nMsgs>>
  /\ Rerender

\* onclose: the socket has closed, by the remote end or after a local close().
OnClose(c) ==
  /\ sess[c] \in {"open", "errored", "closing", "failing"}
  /\ LET s == [sess EXCEPT ![c] = IF @ = "failing" THEN "failed" ELSE "closed"]
     IN IF variant = "A"
        THEN /\ isOrbListening' = FALSE
             /\ Cleanup(s)
             /\ UNCHANGED <<callState, transcript, showDialer, lastCallTranscript,
                            timers>>
        ELSE /\ EndCallB(capturedTranscript[c], s)
             /\ UNCHANGED showDialer
  /\ lastOp' = "onclose"
  /\ UNCHANGED capVars
  /\ endCallInvoked' = (variant = "B")
  /\ UNCHANGED <<variant, accVars, callVars, pvVars, nMsgs>>
  /\ Rerender

\* The promise onaudioprocess of capture node c chains on: A's closure holds
\* the sessionPromise of its own startCall; B reads sessionPromise.current and
\* drops the frame when it is null.
FramePromise(c) == IF variant = "A" THEN c ELSE sessionRef

\* ---------------------------------------------------------------- sample conversion
\* A sample x of the input buffer is multiplied by 32768 and stored into an
\* Int16Array. The product is held as the integer n with x * 32768 = n / SampleDen,
\* so that products with a fractional part are among the inputs.
SampleDen == 2
Int16Modulus == 65536
Int16Sign == 32768
Float32Precision == 16777216

\* truncate(n / SampleDen): the integral part, the fraction discarded toward zero.
Truncate(n) == IF n >= 0 THEN n \div SampleDen ELSE -((-n) \div SampleDen)

\* A saturating store, as Uint8ClampedArray does for bytes: not what Int16Array does.
SaturateInt16(n) ==
  LET int == Truncate(n)
  IN IF int >= Int16Sign THEN Int16Sign - 1
     ELSE IF int < -Int16Sign THEN -Int16Sign ELSE int

\* The element store of an Int16Array (ToInt16): truncate, take the result
\* modulo 2^16, and read values from 2^15 on as negative.
ToInt16(n) ==
  LET int == Truncate(n)
      int16bit == int % Int16Modulus
  IN IF int16bit >= Int16Sign THEN int16bit - Int16Modulus ELSE int16bit

\* The element store of a Float32Array, for B's inputData.map(...), whose result
\* is a Float32Array: a magnitude below 2^24 units of 1/SampleDen has at most 24
\* significant bits and is stored exactly; in the next binade the spacing is two
\* units and a tie goes to the even significand.
Float32Store(n) ==
  LET mag == IF n >= 0 THEN n ELSE -n
      low == 2 * (mag \div 2)
      rounded == IF mag = low THEN mag
                 ELSE IF (low \div 2) % 2 = 0 THEN low ELSE low + 2
  IN IF mag < Float32Precision THEN n
     ELSE IF n >= 0 THEN rounded ELSE -rounded

\* A: int16[i] = inputData[i] * 32768. B: new Int16Array(inputData.map(x => x * 32768)).
SampleToInt16(n) ==
  IF variant = "A" THEN ToInt16(n) ELSE ToInt16(Float32Store(n))

\* The conversion of one sample, on its own.
ConvertSample ==
  /\ pcm' = SampleToInt16(sample)
  /\ lastOp' = "convert"
  /\ UNCHANGED <<variant, uiVars, memoTranscript, accVars, callVars, refVars,
                 objVars, timers, pvVars, nMsgs, audioVars, nCaptured,
                 framesWaiting, forwarded, sample, endCallInvoked>>

\* onaudioprocess of the capture node of call c: the frame is encoded and
\* handed to sessionPromise.then(session => session.sendRealtimeInput(...)).
\* On a resolved promise the continuation runs at the end of this task, on a
\* pending one when it resolves, on a rejected one never.
AudioProcess(c) ==
  /\ c \in connectedProcs
  /\ c \in openIn
  /\ nCaptured < MaxFrames
  /\ nCaptured' = nCaptured + 1
  /\ pcm' = SampleToInt16(sample)
  /\ UNCHANGED sample
  /\ LET p == FramePromise(c)
     IN IF p = NoRef \/ promise[p] = "rejected"
        THEN UNCHANGED <<framesWaiting, forwarded>>
        ELSE IF promise[p] = "resolved"
        THEN /\ forwarded' = [forwarded EXCEPT ![c] = @ + 1]
             /\ UNCHANGED framesWaiting
        ELSE /\ framesWaiting' = [framesWaiting EXCEPT ![c][p] = @ + 1]
             /\ UNCHANGED forwarded
  /\ lastOp' = "onaudioprocess"
  /\ endCallInvoked' = FALSE
  /\ UNCHANGED <<variant, uiVars, memoTranscript, accVars, callVars, refVars,
                 objVars, timers, pvVars, nMsgs, audioVars>>

\* ---------------------------------------------------------------- endCall, timer
\* The Dialer's End button: disabled unless Connected.
EndButtonEnabled == showDialer /\ callState = "Connected"

\* endCall() of the latest render.
EndCallBody ==
  IF variant = "A"
  THEN /\ EndCallA(callState, sess)
       /\ UNCHANGED <<transcript, isOrbListening, showDialer, lastCallTranscript>>
  ELSE /\ EndCallB(transcript, sess)
       /\ UNCHANGED showDialer

EndCall ==
  /\ EndButtonEnabled
  /\ EndCallBody
  /\ lastOp' = "endCall"
  /\ UNCHANGED capVars
  /\ endCallInvoked' = TRUE
  /\ UNCHANGED <<variant, accVars, callVars, pvVars, nMsgs>>
  /\ Rerender

\* A reset callback that leaves the transcript t as it is.
TimerTranscriptKept(t) == t

\* The transcript after the reset callback: A's callback calls
\* setTranscript([]), B's does not touch the transcript.
TimerTranscript(t) == IF variant = "A" THEN <<>> ELSE t

\* The callback endCall passed to setTimeout (A: 1500 ms, B: 2000 ms).
ResetTimer ==
  /\ timers > 0
  /\ timers' = timers - 1
  /\ callState' = "Idle"
  /\ showDialer' = IF variant = "A" THEN FALSE ELSE showDialer
  /\ transcript' = TimerTranscript(transcript)
  /\ lastOp' = "timer"
  /\ UNCHANGED capVars
  /\ UNCHANGED audioVars
  /\ endCallInvoked' = FALSE
  /\ UNCHANGED <<variant, isOrbListening, lastCallTranscript, accVars, callVars,
                 refVars, objVars, pvVars, nMsgs>>
  /\ Rerender


\* ---------------------------------------------------------------- onmessage
\* A message: presence and text of the two transcriptions, the turn-complete
\* flag, the duration of the inline reply audio (0: none), the interrupted flag.
Msg(hi, it, ho, ot, tc, au, intr) ==
  [hasIn |-> hi, inText |-> it, hasOut |-> ho, outText |-> ot, turnComplete |-> tc,
   audio |-> au, interrupted |-> intr]

\* A cursor taken from the clock alone.
CursorFromClock(a, b) == b

Max(a, b) == IF a >= b THEN a ELSE b

\* A, lines 111-117 / 121-127: replace the last entry when it is sp's, else append.
UpdateLast(t, sp, tx) ==
  IF Len(t) > 0 /\ t[Len(t)].speaker = sp
  THEN [t EXCEPT ![Len(t)] = Entry(sp, tx)]
  ELSE Append(t, Entry(sp, tx))

\* String.prototype.trim on a sequence of tokens, " " the whitespace token.
RECURSIVE TrimLeft(_)
TrimLeft(tx) == IF tx # <<>> /\ Head(tx) = " " THEN TrimLeft(Tail(tx)) ELSE tx
RECURSIVE TrimRight(_)
TrimRight(tx) ==
  IF tx # <<>> /\ tx[Len(tx)] = " " THEN TrimRight(SubSeq(tx, 1, Len(tx) - 1)) ELSE tx
Trim(tx) == TrimRight(TrimLeft(tx))

\* The speaker whose partial text opens the turn, given the message m.
FirstPartial(m) ==
  IF firstPartial # "none" THEN firstPartial
  ELSE IF m.hasIn THEN "User"
  ELSE IF m.hasOut THEN "Agent"
  ELSE "none"

\* The transcription branches of onmessage and its turn-complete branch.
OnMessageTexts(m) ==
  IF variant = "A"
  THEN LET ci == IF m.hasIn THEN currentInputTranscription \o m.inText
                 ELSE currentInputTranscription
           co == IF ~m.hasIn /\ m.hasOut THEN currentOutputTranscription \o m.outText
                 ELSE currentOutputTranscription
       IN /\ transcript' = IF m.hasIn THEN UpdateLast(transcript, "User", ci)
                           ELSE IF m.hasOut THEN UpdateLast(transcript, "Agent", co)
                           ELSE transcript
          /\ currentInputTranscription' = IF m.turnComplete THEN <<>> ELSE ci
          /\ currentOutputTranscription' = IF m.turnComplete THEN <<>> ELSE co
  ELSE LET ci == IF m.hasIn THEN currentInputTranscription \o m.inText
                 ELSE currentInputTranscription
           co == IF m.hasOut THEN currentOutputTranscription \o m.outText
                 ELSE currentOutputTranscription
           t1 == IF Trim(ci) # <<>> THEN Append(transcript, Entry("User", Trim(ci)))
                 ELSE transcript
           t2 == IF Trim(co) # <<>> THEN Append(t1, Entry("Agent", Trim(co))) ELSE t1
       IN /\ transcript' = IF m.turnComplete THEN t2 ELSE transcript
          /\ currentInputTranscription' = IF m.turnComplete THEN <<>> ELSE ci
          /\ currentOutputTranscription' = IF m.turnComplete THEN <<>> ELSE co

\* The transcription part of onmessage.
OnMessageTranscript(m) ==
  /\ firstPartial' = IF m.turnComplete THEN "none" ELSE FirstPartial(m)
  /\ OnMessageTexts(m)

\* The audio and interruption part of onmessage, up to its await.  Reading
\* currentTime through a null ref throws: the rest of the handler is skipped.
OnMessageAudio(m) ==
  IF m.audio > 0
  THEN /\ isOrbListening' = IF variant = "B" THEN FALSE ELSE isOrbListening
       /\ IF outputAudioContext = NoRef
          THEN UNCHANGED <<nextStartTime, audioSources, fragVars>>
          ELSE /\ nextStartTime' = Max(nextStartTime, clock)
               /\ nFrags' = nFrags + 1
               /\ fstate' = [fstate EXCEPT ![nFrags + 1] = "decoding"]
               /\ fdur' = [fdur EXCEPT ![nFrags + 1] = m.audio]
               /\ fintr' = [fintr EXCEPT ![nFrags + 1] = m.interrupted]
               /\ UNCHANGED <<audioSources, fstart, fcut>>
  ELSE /\ UNCHANGED isOrbListening
       /\ IF m.interrupted
          THEN /\ StopAll
               /\ nextStartTime' = 0
               /\ fcut' = [g \in Frags |-> fcut[g] \/ fstate[g] = "decoding"]
               /\ UNCHANGED <<nFrags, fstart, fdur, fintr>>
          ELSE UNCHANGED <<nextStartTime, audioSources, fragVars>>

\* The record of an onmessage task tells whether the message carried the
\* interrupted flag and the turn-complete signal.
MsgOp(m) ==
  IF m.interrupted
  THEN IF m.turnComplete THEN "onmessageTurnCompleteInterrupted"
       ELSE "onmessageInterrupted"
  ELSE IF m.turnComplete THEN "onmessageTurnComplete" ELSE "onmessage"

\* The records of onmessage tasks.
MsgOps == { "onmessage", "onmessageInterrupted", "onmessageTurnComplete",
            "onmessageTurnCompleteInterrupted" }

OnMessage(c, m) ==
  /\ sess[c] \in {"open", "errored"}
  /\ nMsgs < MaxMsgs
  /\ m.audio > 0 => nFrags < MaxFrags
  /\ nMsgs' = nMsgs + 1
  /\ OnMessageTranscript(m)
  /\ OnMessageAudio(m)
  /\ lastOp' = MsgOp(m)
  /\ UNCHANGED capVars
  /\ endCallInvoked' = FALSE
  /\ UNCHANGED <<variant, callState, showDialer, lastCallTranscript,
                 callVars, refVars, objVars, timers, pvVars, clock>>
  /\ Rerender

\* decodeAudioData (services/audioUtils) is an asynchronous suspension point:
\* other tasks run while a decode is awaited.  Each onmessage handler awaits
\* its own decode and nothing orders the decodes of two handlers: any awaited
\* decode may be the next to settle.
DecodeSettles(f) == fstate[f] = "decoding"

\* decodeAudioData settles and onmessage resumes: the source is created on the
\* context outputAudioContext holds now (a null ref throws), started at the
\* cursor and added to the live set; then the interrupted branch runs.
DecodeDone(f, ok) ==
  /\ DecodeSettles(f)
  /\ IF ~ok \/ outputAudioContext = NoRef
     THEN /\ fstate' = [fstate EXCEPT ![f] = "failed"]
          /\ fcut' = [fcut EXCEPT ![f] = FALSE]
          /\ UNCHANGED <<nextStartTime, audioSources, fstart>>
     ELSE /\ fstart' = [fstart EXCEPT ![f] = nextStartTime]
          /\ IF fintr[f]
             THEN /\ fstate' = [g \in Frags |->
                                 IF g \in audioSources \cup {f} THEN "stopped"
                                 ELSE fstate[g]]
                  /\ audioSources' = {}
                  /\ nextStartTime' = 0
                  /\ fcut' = [g \in Frags |->
                               g # f /\ (fcut[g] \/ fstate[g] = "decoding")]
             ELSE /\ fstate' = [fstate EXCEPT ![f] = "playing"]
                  /\ fcut' = [fcut EXCEPT ![f] = FALSE]
                  /\ audioSources' = audioSources \cup {f}
                  /\ nextStartTime' = nextStartTime + fdur[f]
  /\ lastOp' = "decodeDone"
  /\ UNCHANGED capVars
  /\ endCallInvoked' = FALSE
  /\ UNCHANGED <<variant, uiVars, accVars, callVars, refVars, objVars, timers,
                 pvVars, nMsgs, clock, nFrags, fdur, fintr>>
  /\ Rerender

\* The 'ended' event of a source: it has played to its end, or stop() was called.
SourceEnded(f) ==
  /\ \/ fstate[f] = "stopped"
     \/ fstate[f] = "playing" /\ clock >= fstart[f] + fdur[f]
  /\ fstate' = [fstate EXCEPT ![f] = "ended"]
  /\ audioSources' = audioSources \ {f}
  /\ isOrbListening' = IF variant = "B" /\ audioSources' = {} THEN TRUE
                        ELSE isOrbListening
  /\ lastOp' = "sourceEnded"
  /\ UNCHANGED capVars
  /\ endCallInvoked' = FALSE
  /\ UNCHANGED <<variant, callState, transcript, showDialer, lastCallTranscript,
                 accVars, callVars, refVars, objVars, timers, pvVars, nMsgs,
                 nextStartTime, clock, nFrags, fstart, fdur, fintr, fcut>>
  /\ Rerender

\* The playback clock of the current playback context advances.
Tick ==
  /\ outputAudioContext # NoRef
  /\ clock < MaxClock
  /\ clock' = clock + 1
  /\ lastOp' = "tick"
  /\ UNCHANGED capVars
  /\ endCallInvoked' = FALSE
  /\ UNCHANGED <<variant, uiVars, memoTranscript, accVars, callVars, refVars,
                 objVars, timers, pvVars, nMsgs, nextStartTime, audioSources,
                 fragVars>>

\* ---------------------------------------------------------------- presentation
\* A: the "Start Live Conversation" button, rendered while !showDialer.
ShowDialer ==
  /\ variant = "A"
  /\ ~showDialer
  /\ showDialer' = TRUE
  /\ lastOp' = "showDialer"
  /\ UNCHANGED capVars
  /\ UNCHANGED audioVars
  /\ endCallInvoked' = FALSE
  /\ UNCHANGED <<variant, callState, transcript, isOrbListening, lastCallTranscript,
                 accVars, callVars, refVars, objVars, timers, pvVars, nMsgs>>
  /\ Rerender

\* B: the template cards and their Preview Voice buttons are rendered while
\* lastCallTranscript is null.
TemplatesShown == variant = "B" /\ lastCallTranscript = <<>>

\* B: handleSelectTemplate with another template: startCall is memoized anew.
SelectTemplate ==
  /\ TemplatesShown
  /\ memoTranscript # transcript
  /\ memoTranscript' = transcript
  /\ lastOp' = "selectTemplate"
  /\ UNCHANGED capVars
  /\ UNCHANGED audioVars
  /\ endCallInvoked' = FALSE
  /\ UNCHANGED <<variant, uiVars, accVars, callVars, refVars, objVars, timers,
                 pvVars, nMsgs>>

\* B: handleCloseSummary.
CloseSummary ==
  /\ variant = "B"
  /\ lastCallTranscript # <<>>
  /\ lastCallTranscript' = <<>>
  /\ lastOp' = "closeSummary"
  /\ UNCHANGED capVars
  /\ UNCHANGED audioVars
  /\ endCallInvoked' = FALSE
  /\ UNCHANGED <<variant, callState, transcript, isOrbListening, showDialer,
                 accVars, callVars, refVars, objVars, timers, pvVars, nMsgs>>
  /\ Rerender

\* B: previewVoice up to its first await.
PreviewVoice ==
  /\ TemplatesShown
  /\ nPreviews < MaxPreviews
  /\ nPreviews' = nPreviews + 1
  /\ transcript' = Append(transcript, PreviewingEntry)
  /\ pvWaiting' = pvWaiting + 1
  /\ lastOp' = "previewVoice"
  /\ UNCHANGED capVars
  /\ UNCHANGED audioVars
  /\ endCallInvoked' = FALSE
  /\ UNCHANGED <<variant, callState, isOrbListening, showDialer, lastCallTranscript,
                 accVars, callVars, refVars, objVars, timers, nPreviewCtx,
                 pvDecoding, nMsgs>>
  /\ Rerender

\* B: generateContent settles: with audio, without audio, or rejected.
PreviewResponse(result) ==
  /\ pvWaiting > 0
  /\ pvWaiting' = pvWaiting - 1
  /\ IF result = "audio"
     THEN /\ pvDecoding' = pvDecoding + 1
          /\ IF outputAudioContext = NoRef
             THEN /\ nPreviewCtx' = nPreviewCtx + 1
                  /\ outputAudioContext' = PreviewCtx(nPreviewCtx + 1)
                  /\ openOut' = openOut \cup {PreviewCtx(nPreviewCtx + 1)}
                  /\ clock' = 0
             ELSE UNCHANGED <<nPreviewCtx, outputAudioContext, openOut, clock>>
          /\ UNCHANGED transcript
     ELSE /\ transcript' = IF result = "error"
                           THEN Append(transcript, PreviewErrorEntry) ELSE transcript
          /\ UNCHANGED <<pvDecoding, nPreviewCtx, outputAudioContext, openOut, clock>>
  /\ lastOp' = "previewResponse"
  /\ UNCHANGED capVars
  /\ endCallInvoked' = FALSE
  /\ UNCHANGED <<variant, callState, isOrbListening, showDialer, lastCallTranscript,
                 accVars, callVars, sessionRef, streamRef, scriptProcessor,
                 inputAudioContext, sess, closeOnResolve, liveStreams,
                 connectedProcs, openIn, timers, nPreviews, nMsgs,
                 nextStartTime, audioSources, fragVars>>
  /\ Rerender

\* B: decodeAudioData settles; createBufferSource on a ref that endCall has
\* nulled meanwhile throws, into the same catch as a failed decode.
PreviewDecoded(ok) ==
  /\ pvDecoding > 0
  /\ pvDecoding' = pvDecoding - 1
  /\ transcript' = IF ok /\ outputAudioContext # NoRef THEN transcript
                   ELSE Append(transcript, PreviewErrorEntry)
  /\ lastOp' = "previewDecoded"
  /\ UNCHANGED capVars
  /\ UNCHANGED audioVars
  /\ endCallInvoked' = FALSE
  /\ UNCHANGED <<variant, callState, isOrbListening, showDialer, lastCallTranscript,
                 accVars, callVars, refVars, objVars, timers, nPreviewCtx,
                 pvWaiting, nPreviews, nMsgs>>
  /\ Rerender

\* ---------------------------------------------------------------- specification
\* The messages the session delivers in this model.
Msgs ==
  { Msg(TRUE, <<"u">>, FALSE, <<>>, FALSE, 0, FALSE),
    Msg(FALSE, <<>>, TRUE, <<"a">>, TRUE, 0, FALSE) }

CtxOutcomes == {"ok", "inputContextThrows", "outputContextThrows"}
PreviewResults == {"audio", "noAudio", "error"}

\* The core: one call after another, its session events and the reset timers.
Lifecycle ==
  \/ StartCall
  \/ \E c \in Calls, how \in CtxOutcomes : MicGranted(c, how)
  \/ \E c \in Calls : MicDenied(c)
  \/ \E c \in Calls : OnOpen(c)
  \/ \E c \in Calls : ResolveConnect(c)
  \/ \E c \in Calls : RejectConnect(c)
  \/ \E c \in Calls : OnError(c)
  \/ \E c \in Calls : OnClose(c)
  \/ EndCall
  \/ ResetTimer
  \/ ShowDialer
  \/ SelectTemplate
  \/ CloseSummary

Next ==
  \/ Lifecycle
  \/ \E c \in Calls, m \in Msgs : OnMessage(c, m)

Spec == Init /\ [][Next]_vars

\* The core, with startCall also invoked while its button is disabled or hidden.
NextApi ==
  \/ Next
  \/ StartCallDirect

SpecApi == Init /\ [][NextApi]_vars

\* The calls with the voice previews of variant B.
NextPreview ==
  \/ Lifecycle
  \/ PreviewVoice
  \/ \E r \in PreviewResults : PreviewResponse(r)
  \/ \E ok \in BOOLEAN : PreviewDecoded(ok)

SpecPreview == Init /\ [][NextPreview]_vars

\* The calls with the voice previews and the first messages of a session.
NextPreviewMsg ==
  \/ NextPreview
  \/ /\ nMsgs < MaxPreviewMsgs
     /\ \E c \in Calls, m \in Msgs : OnMessage(c, m)

SpecPreviewMsg == Init /\ [][NextPreviewMsg]_vars

\* The runs in which nothing fails: the permission is granted, the contexts are
\* created, the handshake succeeds and the session reports no error.
NextNoFailure ==
  \/ StartCall
  \/ \E c \in Calls : MicGranted(c, "ok")
  \/ \E c \in Calls : OnOpen(c)
  \/ \E c \in Calls : ResolveConnect(c)
  \/ \E c \in Calls : OnClose(c)
  \/ EndCall
  \/ ResetTimer
  \/ ShowDialer
  \/ SelectTemplate
  \/ CloseSummary
  \/ PreviewVoice
  \/ \E r \in PreviewResults : PreviewResponse(r)
  \/ \E ok \in BOOLEAN : PreviewDecoded(ok)

SpecNoFailure == Init /\ [][NextNoFailure]_vars

\* The messages that carry reply audio or the interrupted flag.
AudioMsgs ==
  { Msg(FALSE, <<>>, FALSE, <<>>, FALSE, d, i) : d \in 0..MaxDur, i \in BOOLEAN }
    \ { Msg(FALSE, <<>>, FALSE, <<>>, FALSE, 0, FALSE) }

\* The steps of calls that start and end without a failure.
CallSteps ==
  \/ StartCall
  \/ \E c \in Calls : MicGranted(c, "ok")
  \/ \E c \in Calls : OnOpen(c)
  \/ \E c \in Calls : ResolveConnect(c)
  \/ \E c \in Calls : OnClose(c)
  \/ EndCall
  \/ ResetTimer
  \/ ShowDialer

\* The calls with reply audio: messages, decodes, playback and its clock.
NextAudio ==
  \/ CallSteps
  \/ /\ nMsgs < MaxAudioMsgs
     /\ \E c \in Calls, m \in AudioMsgs : OnMessage(c, m)
  \/ \E f \in Frags, ok \in BOOLEAN : DecodeDone(f, ok)
  \/ \E f \in Frags : SourceEnded(f)
  \/ Tick

SpecAudio == Init /\ [][NextAudio]_vars

\* The messages that carry transcription text or the turn-complete signal:
\* a partial text of the user, of the agent, of both, a whitespace-only text
\* of the user, and the turn-complete signal.
TextMsgs ==
  { Msg(TRUE, <<"u">>, FALSE, <<>>, FALSE, 0, FALSE),
    Msg(FALSE, <<>>, TRUE, <<"a">>, FALSE, 0, FALSE),
    Msg(TRUE, <<"u">>, TRUE, <<"a">>, FALSE, 0, FALSE),
    Msg(TRUE, <<" ">>, FALSE, <<>>, FALSE, 0, FALSE),
    Msg(FALSE, <<>>, FALSE, <<>>, TRUE, 0, FALSE) }

\* The calls with transcription messages.
NextText ==
  \/ CallSteps
  \/ \E c \in Calls, m \in TextMsgs : OnMessage(c, m)

SpecText == Init /\ [][NextText]_vars

\* Calls and the frames their capture nodes produce.
NextCapture ==
  \/ CallSteps
  \/ \E c \in Calls : AudioProcess(c)

SpecCapture == Init /\ [][NextCapture]_vars

\* The component is unmounted.  A's only effect returns () => cleanup(); B's
\* only effect returns nothing, so React has nothing to run.
Unmount ==
  /\ lastOp # "unmount"
  /\ IF variant = "A"
     THEN Cleanup(sess)
     ELSE UNCHANGED <<refVars, objVars, audioVars>>
  /\ lastOp' = "unmount"
  /\ UNCHANGED capVars
  /\ endCallInvoked' = FALSE
  /\ UNCHANGED <<variant, uiVars, memoTranscript, accVars, callVars, timers,
                 pvVars, nMsgs>>

\* Calls with reply audio, up to the unmounting of the component: what the
\* callbacks still pending do to a dead component is not followed.
NextUnmount ==
  \/ /\ lastOp # "unmount"
     /\ \/ CallSteps
        \/ /\ nMsgs < MaxUnmountMsgs
           /\ \E c \in Calls, m \in AudioMsgs : OnMessage(c, m)
        \/ \E f \in Frags, ok \in BOOLEAN : DecodeDone(f, ok)
  \/ Unmount

SpecUnmount == Init /\ [][NextUnmount]_vars


\* ================================================================ properties
\* Sessions whose handle is open or being opened.
OpenSessions == {c \in Calls : sess[c] \in {"connecting", "open", "errored"}}

\* Everything but the record of the last task.
programVars == <<variant, uiVars, memoTranscript, accVars, callVars, refVars,
                 objVars, timers, pvVars, nMsgs, audioVars, capVars>>

\* What a call holds: the refs and the browser objects behind them.
heldResources == <<refVars, liveStreams, connectedProcs, openIn, openOut,
                   audioSources>>

\* C1: startCall invoked while the call state is Connecting, Connected or Ended
\* changes nothing: no stream, context or session is created, and the call
\* state, the transcript and the listening indicator stay as they are.
C1_StartCallNoop ==
  [][(lastOp' = "startCall" /\ callState # "Idle") => UNCHANGED programVars]_vars

\* C1: startCall has been invoked on a Connected call, which is still Connected.
C1_Witness == lastOp = "startCall" /\ callState = "Connected" /\ OpenSessions # {}

\* The transcript at the moment a task calls endCall: B's onerror and onclose
\* append their System entry first.
TranscriptAtEndCall ==
  IF variant = "B" /\ lastOp' = "onerror" THEN Append(transcript, SessionErrorEntry)
  ELSE IF variant = "B" /\ lastOp' = "onclose"
       THEN Append(transcript, SessionClosedEntry)
       ELSE transcript

\* C2: endCall invoked while the call state is Idle, Connecting or Ended
\* changes neither the call state, the transcript, the held resources nor the
\* pending reset timers.
C2_EndCallNoop ==
  [][(endCallInvoked' /\ callState # "Connected")
       => /\ callState' = callState
          /\ transcript' = TranscriptAtEndCall
          /\ timers' = timers
          /\ UNCHANGED heldResources]_vars

\* The call-state changes the lifecycle allows.
AllowedTransition ==
  \/ callState' = callState
  \/ <<callState, callState'>> \in
       { <<"Idle", "Connecting">>, <<"Connecting", "Connected">>,
         <<"Connected", "Ended">>, <<"Ended", "Idle">> }
  \/ /\ callState = "Connecting"
     /\ callState' = "Idle"
     /\ lastOp' \in {"micDenied", "micGranted", "reject"}

\* C3: the call state changes only along Idle->Connecting, Connecting->Connected,
\* Connecting->Idle (failed start), Connected->Ended and Ended->Idle.
C3_Transitions == [][AllowedTransition]_vars

\* C4: at most one microphone stream is live, at most one capture context and
\* one playback context are open, and at most one session handle is open.
C4_SingleResources ==
  /\ Cardinality(liveStreams) <= 1
  /\ Cardinality(openIn) <= 1
  /\ Cardinality(openOut) <= 1
  /\ Cardinality(OpenSessions) <= 1

\* The resources the call c acquired are all released.
Released(c) ==
  /\ c \notin OpenSessions
  /\ c \notin liveStreams
  /\ c \notin connectedProcs
  /\ c \notin openIn
  /\ c \notin openOut
  /\ audioSources = {}

\* C5: when endCall has run on a Connected call, the call's session is closed
\* (or being closed), its microphone tracks are stopped, its capture node is
\* disconnected, both its contexts are closed and the live set is empty.
C5_EndReleases ==
  [][(lastOp' = "endCall" /\ callState = "Connected") => Released(nCalls)']_vars

\* The handshake of call c succeeded: the call has been Connected.
WasConnected(c) == sess[c] \in {"open", "errored", "closing", "closed"}

\* C6 as stated: endCall on a Connected call sets Ended, and when the Ended
\* state of a call that was Connected gives way to Idle the transcript is empty.
C6_IdleTranscriptEmpty ==
  [][/\ (lastOp' = "endCall" /\ callState = "Connected") => callState' = "Ended"
     /\ (callState = "Ended" /\ callState' = "Idle" /\ nCalls > 0
           /\ WasConnected(nCalls))
          => transcript' = <<>>]_vars

\* C6, amended: endCall on a Connected call sets Ended; while Ended a reset
\* timer is pending, and a reset timer that fires sets Idle, so Ended gives way
\* to Idle once the timers run.  In A the reset that sets Idle empties the
\* transcript.  In B it is endCall that empties the transcript and the reset
\* leaves it as it is, with whatever was appended while Ended.  In both the
\* next startCall replaces the transcript: by the empty one in A, by the
\* single "Initializing session..." entry in B.
C6_EndedThenIdle ==
  /\ [][(lastOp' = "endCall" /\ callState = "Connected") => callState' = "Ended"]_vars
  /\ [](callState = "Ended" => timers > 0)
  /\ [][lastOp' = "timer" => (timers > 0 /\ callState' = "Idle")]_vars
  /\ [][(variant = "A" /\ callState = "Ended" /\ callState' = "Idle")
          => transcript' = <<>>]_vars
  /\ [][(variant = "B" /\ endCallInvoked') => transcript' = <<>>]_vars
  /\ [][(variant = "B" /\ lastOp' = "timer") => transcript' = transcript]_vars
  /\ [][(lastOp' = "startCall" /\ callState = "Idle")
          => transcript' = IF variant = "A" THEN <<>> ELSE <<InitializingEntry>>]_vars

\* C6: a call of B was connected and ended, its reset has set Idle, and the
\* transcript holds what a voice preview appended meanwhile.
C6_Witness ==
  /\ variant = "B"
  /\ lastOp = "timer"
  /\ callState = "Idle"
  /\ nCalls = 1
  /\ WasConnected(1)
  /\ transcript # <<>>

\* C7: onerror or onclose on a Connected call acts as endCall does: the call
\* state becomes Ended, a reset timer is pending and every ref is null.
C7_EventEndsCall ==
  [][(lastOp' \in {"onerror", "onclose"} /\ callState = "Connected")
       => /\ callState' = "Ended"
          /\ timers' = timers + 1
          /\ sessionRef' = NoRef
          /\ scriptProcessor' = NoRef
          /\ inputAudioContext' = NoRef
          /\ outputAudioContext' = NoRef]_vars

\* Whether the transcript t has the entry e.
HasEntry(t, e) == \E i \in DOMAIN t : t[i] = e

\* C8: in B, when onerror or onclose has been handled on a Connected call, the
\* transcript has the System entry recording the event.
C8_EventEntryKept ==
  [][(variant = "B" /\ callState = "Connected")
       => /\ lastOp' = "onerror" => HasEntry(transcript', SessionErrorEntry)
          /\ lastOp' = "onclose" => HasEntry(transcript', SessionClosedEntry)]_vars

\* The start of call c has failed: the permission was denied or a context
\* constructor threw (no session was requested), or the handshake failed.
StartFailed(c) ==
  /\ pc[c] # "none"
  /\ pc[c] # "mic"
  /\ \/ promise[c] = "none"
     \/ promise[c] = "rejected"

\* C9: once the start of the latest call has failed, the call state is not
\* Connecting.
C9_FailedStartLeavesConnecting ==
  \A c \in Calls : (c = nCalls /\ StartFailed(c)) => callState # "Connecting"

\* C10: when the start of the latest call has failed and the call state is
\* back at Idle, no microphone stream of that call is live and no context of
\* that call is open.
C10_FailedStartReleases ==
  \A c \in Calls :
    (c = nCalls /\ StartFailed(c) /\ callState = "Idle")
      => /\ c \notin liveStreams
         /\ c \notin openIn
         /\ c \notin openOut

\* The scheduled end of fragment g.
ScheduledEnd(g) == fstart[g] + fdur[g]

\* Fragment f is scheduled in this step: its decode has settled and its source
\* is started and kept in the live set (its message is not an interruption).
Scheduled(f) == fstate[f] = "decoding" /\ fstate'[f] = "playing"

InterruptedHandled ==
  \/ /\ lastOp' \in {"onmessageInterrupted", "onmessageTurnCompleteInterrupted"}
     /\ nFrags' = nFrags
  \/ \E f \in Frags : fstate[f] = "decoding" /\ fstate'[f] # "decoding" /\ fintr[f]

\* C12: when the handling of an interrupted message ends, every fragment that
\* was in the live set is stopped, the live set is empty and nextStartTime is 0.
C12_InterruptionFlushes ==
  [][InterruptedHandled
       => /\ audioSources' = {}
          /\ nextStartTime' = 0
          /\ \A g \in audioSources : fstate'[g] = "stopped"]_vars

\* The number of entries of speaker sp in the transcript t.
Count(t, sp) == Cardinality({i \in DOMAIN t : t[i].speaker = sp})

\* The latest entry of speaker sp in t has the text tx.
LatestEntryIs(t, sp, tx) ==
  \E i \in DOMAIN t :
    /\ t[i] = Entry(sp, tx)
    /\ \A j \in DOMAIN t : j > i => t[j].speaker # sp

\* A partial event of the speaker with accumulator acc has been taken in:
\* after the step the transcript has one entry for the open turn, new when the
\* event is the first of the turn, and its text is the accumulated text.
OneOpenEntry(sp, acc, accAfter) ==
  Len(accAfter) > Len(acc)
    => /\ LatestEntryIs(transcript', sp, accAfter)
       /\ Count(transcript', sp) = Count(transcript, sp) + (IF acc = <<>> THEN 1 ELSE 0)

\* C13: while a speaker's turn is open, the transcript has exactly one entry
\* for it, whose text is the concatenation of the partial texts received so
\* far, whatever partial events of the other speaker come in between.
C13_OneEntryPerOpenTurn ==
  [][/\ OneOpenEntry("User", currentInputTranscription, currentInputTranscription')
     /\ OneOpenEntry("Agent", currentOutputTranscription,
                     currentOutputTranscription')]_vars

\* The transcript t is kept, entry by entry, at the head of u.
IsPrefix(t, u) == Len(t) <= Len(u) /\ SubSeq(u, 1, Len(t)) = t

\* C14: a turn-complete signal leaves both accumulators empty, and the message
\* handled next (with both accumulators empty) changes or replaces no entry
\* that is already in the transcript.
C14_CompletedEntriesFinal ==
  [][/\ lastOp' \in {"onmessageTurnComplete", "onmessageTurnCompleteInterrupted"}
          => /\ currentInputTranscription' = <<>>
             /\ currentOutputTranscription' = <<>>
     /\ (lastOp' \in MsgOps /\ currentInputTranscription = <<>>
           /\ currentOutputTranscription = <<>>)
          => IsPrefix(transcript, transcript')]_vars

\* B: a task has ended a Connected call through endCall.
EndsConnectedCallB ==
  /\ variant = "B"
  /\ callState = "Connected"
  /\ endCallInvoked'
  /\ lastOp' \in {"endCall", "onclose", "onerror"}

\* B: what endCall hands to generateSummary (and to setLastCallTranscript,
\* the statement before it) when the call's transcript is t: t itself when it
\* has more than two entries, otherwise nothing, the last summary staying.
SummaryOf(t) == IF Len(t) > 2 THEN t ELSE lastCallTranscript

\* C15: in variant B, ending a Connected call, by endCall, onclose or
\* onerror, invokes generateSummary with exactly the current transcript when
\* it has more than two entries, and not otherwise; the transcript is then
\* cleared.
C15_SummaryOnEnd ==
  [][EndsConnectedCallB
       => /\ lastCallTranscript' = SummaryOf(transcript)
          /\ transcript' = <<>>]_vars

\* The part of C15 about the End button alone.
C15_SummaryOnEndCall ==
  [][(EndsConnectedCallB /\ lastOp' = "endCall")
       => /\ lastCallTranscript' = SummaryOf(transcript)
          /\ transcript' = <<>>]_vars

\* C16: when the component is unmounted, whatever the state of the call, the
\* session, the microphone stream, the capture node, the two contexts and the
\* live fragments of every call are released.
C16_UnmountReleases ==
  [][lastOp' = "unmount" => \A c \in 1..nCalls : Released(c)']_vars

\* The part of C16 that holds: A's unmount releases what the refs hold.
C16_UnmountReleasesRefsA ==
  [][(lastOp' = "unmount" /\ variant = "A")
       => /\ (sessionRef # NoRef => sessionRef \notin OpenSessions')
          /\ streamRef \notin liveStreams'
          /\ scriptProcessor \notin connectedProcs'
          /\ inputAudioContext \notin openIn'
          /\ outputAudioContext \notin openOut'
          /\ audioSources' = {}]_vars

\* Teardown has run and no call has been set up since: cleanup and B's
\* endCall null the playback context ref, which only startCall assigns.
TornDown == nCalls > 0 /\ sess[nCalls] # "none" /\ outputAudioContext = NoRef

\* A callback of the session has run: onmessage, or its resumption after the
\* decode it awaited.
LateCallback == TornDown /\ lastOp' \in MsgOps \cup {"decodeDone"}

\* The step starts no fragment and adds none to the live set.
NoPlaybackStarted ==
  /\ audioSources' \subseteq audioSources
  /\ \A f \in Frags : fstate'[f] = "playing" => fstate[f] = "playing"

\* C17: once teardown has run, an onmessage delivered late or a decode that
\* settles late starts no playback fragment, adds none to the live set and
\* adds or changes no transcript entry.
C17_NoLateActivity ==
  [][LateCallback => (NoPlaybackStarted /\ transcript' = transcript)]_vars

\* The part of C17 about playback alone.
C17_NoLatePlayback == [][LateCallback => NoPlaybackStarted]_vars

\* sendRealtimeInput is called in this step for a frame of capture node c.
Forwards(c) == forwarded'[c] > forwarded[c]

\* endCall has run and the capture node of call c is detached: only endCall
\* sets Ended, and Idle follows it.
DetachedByEndCall(c) == c \notin connectedProcs /\ callState \in {"Ended", "Idle"}

\* C18: once endCall has detached the capture node of a call, sendRealtimeInput
\* is not called for that call any more, also not by the continuation of a
\* frame captured before the end.
C18_NoForwardAfterDetach ==
  [][\A c \in Calls : Forwards(c) => ~DetachedByEndCall(c)]_vars

\* A Connected call is ended by this step: endCall, or the session's close.
EndsConnectedCall ==
  callState = "Connected" /\ lastOp' \in {"endCall", "onclose", "onerror"}

\* C19: when a call has ended, by endCall or by a remote close or error,
\* nextStartTime is 0.
C19_CursorZeroAfterEnd ==
  [][EndsConnectedCall => nextStartTime' = 0]_vars

\* The part of C19 that holds in A: the cursor is 0 when startCall has set up
\* the next call.
C19_CursorZeroAtStartA ==
  [][(variant = "A" /\ lastOp' = "micGranted" /\ outputAudioContext' # NoRef)
       => nextStartTime' = 0]_vars

\* The step ends a session: endCall, or the session's close or error.
SessionEnds == lastOp' \in {"endCall", "onclose", "onerror"}

\* C20: nextStartTime decreases only in a step that sets it to 0 while
\* handling an interruption or ending the session.
C20_CursorMonotonic ==
  [][nextStartTime' < nextStartTime
       => (nextStartTime' = 0 /\ (InterruptedHandled \/ SessionEnds))]_vars

\* The part of C20 that holds: the cursor decreases only by being set to 0,
\* in the interrupted branch or, in A, when startCall sets up a call.
C20_CursorDecreasesToZero ==
  [][nextStartTime' < nextStartTime
       => /\ nextStartTime' = 0
          /\ InterruptedHandled \/ (variant = "A" /\ lastOp' = "micGranted")]_vars

\* C21: no fragment that arrived before an interruption is started after the
\* interruption has been handled, also not one whose decode was being awaited
\* when it was handled (such a fragment would start at the zeroed cursor and
\* not at a time fixed from the playback clock after the interruption).
C21_NoStartAcrossInterruption ==
  [][\A f \in Frags : Scheduled(f) => ~fcut[f]]_vars

\* C22: reply fragments are started in the order their messages were received:
\* of two fragments in the live set, the one that arrived first has the start
\* time that is not the later one, in whatever order their decodes settled.
C22_StartedInArrivalOrder ==
  \A f, g \in audioSources : f < g => fstart[f] <= fstart[g]

\* C23: the User and Agent entries a message adds to the transcript are in
\* the order in which the first partial text of each arrived: when the Agent's
\* partial text opened the turn, no User entry added in the step precedes an
\* Agent entry added in the step.
C23_EntriesInArrivalOrder ==
  [][(lastOp' \in MsgOps /\ firstPartial = "Agent")
       => \A i, j \in DOMAIN transcript' :
            (Len(transcript) < i /\ i < j)
              => ~(transcript'[i].speaker = "User"
                     /\ transcript'[j].speaker = "Agent")]_vars

\* The decode of fragment f fails in this step, in a call whose playback
\* context is still there.
DecodeFails(f) ==
  fstate[f] = "decoding" /\ fstate'[f] = "failed" /\ outputAudioContext # NoRef

\* C24: when the decode of a fragment fails the call state stays as it is,
\* the fragment is not in the live set, nextStartTime is not advanced by its
\* duration, and an interrupted flag of the same message is still applied:
\* the live set is emptied and nextStartTime set to 0.
C24_DecodeFailureSkipped ==
  [][\A f \in Frags :
       DecodeFails(f)
         => /\ callState' = callState
            /\ f \notin audioSources'
            /\ IF fintr[f]
               THEN audioSources' = {} /\ nextStartTime' = 0
               ELSE audioSources' = audioSources /\ nextStartTime' = nextStartTime]_vars

\* The part of C24 that holds: the failed fragment leaves the call state, the
\* live set and the cursor as they are.
C24_DecodeFailureLeavesState ==
  [][\A f \in Frags :
       DecodeFails(f)
         => /\ callState' = callState
            /\ audioSources' = audioSources
            /\ nextStartTime' = nextStartTime]_vars

\* C25: both transcript accumulators are empty when a call becomes Connected,
\* the sessions of the earlier calls being closed by then (so that what the
\* accumulators hold came in while an earlier call was in progress).
C25_AccumulatorsEmptyAtConnect ==
  [][(callState # "Connected" /\ callState' = "Connected"
        /\ \A c \in Calls : c < nCalls => sess[c] \in {"closing", "closed"})
       => /\ currentInputTranscription' = <<>>
          /\ currentOutputTranscription' = <<>>]_vars

\* C26: whenever the call state is Connected, the session of the call is open,
\* its microphone stream is live and its capture context is open.
C26_ConnectedHoldsResources ==
  callState = "Connected"
    => /\ nCalls > 0
       /\ sess[nCalls] = "open"
       /\ nCalls \in liveStreams
       /\ nCalls \in openIn

\* C27: while the call state is Ended or Idle the listening indicator is
\* inactive.
C27_IndicatorOffAfterEnd ==
  callState \in {"Ended", "Idle"} => ~isOrbListening

\* No message with reply audio has carried the interrupted flag.
NoAudioInterrupted == \A f \in Frags : ~fintr[f]

\* C28: in B, while the call is Connected, the listening indicator is
\* inactive whenever the live set is non-empty (here: in the runs in which no
\* reply audio is cut by an interruption), and the 'ended' event that empties
\* the live set makes it active.
C28_IndicatorFollowsLiveSet ==
  /\ []((variant = "B" /\ callState = "Connected" /\ audioSources # {}
           /\ NoAudioInterrupted)
          => ~isOrbListening)
  /\ [][(variant = "B" /\ callState = "Connected" /\ lastOp' = "sourceEnded"
           /\ audioSources # {} /\ audioSources' = {})
          => isOrbListening']_vars

\* ---------------------------------------------------------------- C29
\* The scaled samples converted: from below -2^16 to above 2^16, in steps of
\* 1/SampleDen.
MaxSample == 131080
Samples == (-MaxSample)..MaxSample

InitSample ==
  /\ InitCall
  /\ sample \in Samples
  /\ pcm = 0

NextSample == ConvertSample

SpecSample == InitSample /\ [][NextSample]_vars

\* t is the integral part of sample / SampleDen, the fraction dropped toward zero.
IsTruncation(t) ==
  IF sample >= 0
  THEN SampleDen * t <= sample /\ sample < SampleDen * (t + 1)
  ELSE sample <= SampleDen * t /\ SampleDen * (t - 1) < sample

\* C29: in each variant a captured sample x is stored as trunc(x * 32768) reduced
\* modulo 2^16 into the signed 16-bit range, without clamping: a product within
\* -32768 <= x * 32768 < 32768 is stored as its truncation, and x = 1.0 is
\* stored as -32768.
C29_SampleWrapsNotClamps ==
  lastOp = "convert" =>
    /\ pcm \in (-Int16Sign)..(Int16Sign - 1)
    /\ \E k \in -2..2 : IsTruncation(pcm + k * Int16Modulus)
    /\ (-Int16Sign * SampleDen <= sample /\ sample < Int16Sign * SampleDen)
          => IsTruncation(pcm)
    /\ sample = Int16Sign * SampleDen => pcm = -Int16Sign

\* A full-scale sample, x = 1.0, has been converted and wrapped.
C29_Witness ==
  /\ lastOp = "convert"
  /\ sample = Int16Sign * SampleDen
  /\ pcm = -Int16Sign

====
